---- MODULE Spec2Model ----
(***************************************************************************)
(* VehicleTrack Cloud (backend/server.js): socket authentication and role  *)
(* binding, the connection registry, the permission documents kept in S3,  *)
(* location ingest with fan-out, and the history query.                    *)
(*                                                                         *)
(* Spec         the socket namespace: handshakes, disconnects and the three *)
(*              socket events, every handler run to completion, one at a   *)
(*              time, with no store failure; tokens as the demo client     *)
(*              makes them.                                                *)
(* SpecAuth     the same namespace offered every kind of handshake token.  *)
(* SpecPerm     updatePermission alone, called one at a time on the store. *)
(* SpecHistory  location ingest and the history query.                     *)
(* SpecRest     location ingest and the history route with its page size   *)
(*              and its cap scaled down, and with store requests of the    *)
(*              route failing.                                             *)
(* SpecScenario one user with up to two dashboards and one device.         *)
(* SpecFaults   one user and one device, each write of a handler free to   *)
(*              fail, and the permissions routes with reads free to fail.  *)
(* SpecReads    two users and one device, each read of a handler free to    *)
(*              fail.                                                      *)
(* SpecRace     request and grant handlers stopping at their awaits, so    *)
(*              that their store requests interleave.                      *)
(* SpecReports  location:update handlers of one device stopping at their   *)
(*              awaits, while the server clock moves on.                   *)
(***************************************************************************)
EXTENDS Integers, Sequences, FiniteSets, TLC

\* ------------------------------------------------------------------ bounds
MaxSockets == 3
MaxSteps == 5
MaxClock == 2

\* ------------------------------------------------------------- identities
VehicleIds == {"V1", "V2"}
UserIds == {"U1", "U2"}

\* JavaScript's undefined and JSON's null
Undefined == "<undefined>"
Null == "<null>"
NullValue == [null |-> TRUE]
EmptyObject == <<>>

IsNull(x) == "null" \in DOMAIN x
Truthy(x) == x # Undefined /\ x # Null /\ x # ""
Field(obj, name) == IF name \in DOMAIN obj THEN obj[name] ELSE Undefined

\* `${x}` in a template string
Str(x) == IF x = Undefined THEN "undefined" ELSE IF x = Null THEN "null" ELSE x

VARIABLES
    bucket,          \* the S3 bucket: the objects under each of the four key families
    sockets,         \* every socket the namespace has seen, by socket id
    userSockets,     \* Map userId -> Set of socket ids
    vehicleSockets,  \* Map vehicleId -> Set of socket ids
    now,             \* the server clock, Date.now()
    last,            \* what the last operation was and what it answered and emitted
    prev,            \* the updatePermission call made by the operation before the last
    called,          \* the updatePermission calls made so far
    steps,           \* length of the run so far (history queries not counted)
    inflight         \* the handlers that await a store request, and those that returned

vars == <<bucket, sockets, userSockets, vehicleSockets, now, last, prev, called, steps,
          inflight>>

\* ------------------------------------------------------------ credentials
\* A token: how many dot-separated parts it has, whether its signature
\* verifies against JWT_SECRET, whether its second part is base64 JSON, and
\* that JSON.
Token(parts, signed, json, body) ==
    [present |-> TRUE, parts |-> parts, signed |-> signed, json |-> json, body |-> body]
NoToken ==
    [present |-> FALSE, parts |-> 0, signed |-> FALSE, json |-> FALSE, body |-> EmptyObject]

\* AuthProvider.login: header.payload.fake-signature
login(id, role) == Token(3, FALSE, TRUE, [sub |-> id, role |-> role])
\* a token signed with the server's secret
Signed(body) == Token(3, TRUE, TRUE, body)

Tokens ==
    {login(u, "user") : u \in UserIds}
    \cup {login(v, "device") : v \in VehicleIds}
    \cup { Signed([sub |-> "U1", role |-> "user"]),
           Signed([sub |-> "V1"]),
           login("V2", "admin"),
           Token(3, FALSE, TRUE, [role |-> "user"]),
           Token(3, FALSE, FALSE, EmptyObject),
           Token(1, FALSE, FALSE, EmptyObject),
           NoToken }

DemoTokens ==
    {login(u, "user") : u \in UserIds} \cup {login("V1", "device"), NoToken}

verifyJwt(token) ==
    IF token.parts = 3 /\ token.signed /\ token.json THEN token.body ELSE NullValue

decodeFakeJwt(token) ==
    IF ~token.present THEN NullValue          \* token.split throws
    ELSE IF token.parts < 2 THEN NullValue
    ELSE IF ~token.json THEN NullValue        \* JSON.parse throws
    ELSE token.body

\* The role the middleware binds for a payload that passed the checks.
BindRole(payload) ==
    IF Field(payload, "role") = "user"
    THEN [role |-> "user", userId |-> Field(payload, "sub")]
    ELSE [role |-> "device", vehicleId |-> Field(payload, "sub")]

Unauthorized == [ok |-> FALSE, data |-> EmptyObject]
\* the middleware without the !payload.sub test
AuthenticateAnySub(token) ==
    LET verified == IF token.present THEN verifyJwt(token) ELSE NullValue
        payload == IF IsNull(verified) THEN decodeFakeJwt(token) ELSE verified
    IN  IF IsNull(payload) \/ ~Truthy(Field(payload, "role"))
        THEN Unauthorized
        ELSE [ok |-> TRUE, data |-> BindRole(payload)]

\* ns.use: the socket's data when next() is called without an error
Authenticate(token) ==
    LET verified == IF token.present THEN verifyJwt(token) ELSE NullValue
        payload == IF IsNull(verified) THEN decodeFakeJwt(token) ELSE verified
    IN  IF IsNull(payload) \/ ~Truthy(Field(payload, "role")) \/ ~Truthy(Field(payload, "sub"))
        THEN Unauthorized
        ELSE [ok |-> TRUE, data |-> BindRole(payload)]

\* ----------------------------------------------------------------- store
EmptyMap == [k \in {} |-> EmptyObject]
EmptyBucket ==
    [vehPerm |-> EmptyMap, userPerm |-> EmptyMap, current |-> EmptyMap, history |-> EmptyMap]

Includes(arr, x) == \E i \in 1..Len(arr) : arr[i] = x
Without(arr, x) == SelectSeq(arr, LAMBDA e : e # x)
\* push without the includes test
PushAlways(arr, x) == Append(arr, x)
PushUnique(arr, x) == IF Includes(arr, x) THEN arr ELSE Append(arr, x)

\* JSON.stringify then JSON.parse of an array of ids: undefined becomes null
JsonArray(arr) == [i \in 1..Len(arr) |-> IF arr[i] = Undefined THEN Null ELSE arr[i]]
\* ... of an object: a key whose value is undefined is left out
JsonObject(obj, optional) ==
    [k \in {n \in DOMAIN obj : n \notin optional \/ obj[n] # Undefined} |-> obj[k]]
JsonPerm(doc) == [pending |-> JsonArray(doc.pending), accepted |-> JsonArray(doc.accepted)]

putJSON(objects, key, data) ==
    [k \in DOMAIN objects \cup {key} |-> IF k = key THEN data ELSE objects[k]]
getJSON(objects, key, fallback) ==
    IF key \in DOMAIN objects THEN objects[key] ELSE fallback

\* paths: the vehicle or user id as it appears in the key
pathId(id) == Str(id)
historyKey(v, ts) == [vehicle |-> pathId(v), ts |-> ts]


\* ----------------------------------------------------------- permissions
EmptyPerm == [pending |-> <<>>, accepted |-> <<>>]

\* the accepted branch without the filter of line 115
vehAfterKeepsPending(veh, userId, status) ==
    IF status = "pending"
    THEN [veh EXCEPT !.pending = PushUnique(@, userId)]
    ELSE IF status = "accepted"
    THEN [veh EXCEPT !.accepted = PushUnique(@, userId)]
    ELSE veh

\* updatePermission, lines 111-119: the two documents after the status branch
vehAfter(veh, userId, status) ==
    IF status = "pending"
    THEN [veh EXCEPT !.pending = PushUnique(@, userId)]
    ELSE IF status = "accepted"
    THEN [pending |-> Without(veh.pending, userId),
          accepted |-> PushUnique(veh.accepted, userId)]
    ELSE veh

\* the accepted branch without the push of line 118
usrAfterNotAccepted(usr, vehicleId, status) ==
    IF status = "pending"
    THEN [usr EXCEPT !.pending = PushUnique(@, vehicleId)]
    ELSE IF status = "accepted"
    THEN [usr EXCEPT !.pending = Without(@, vehicleId)]
    ELSE usr

\* an updatePermission that leaves the user document as it read it
usrAfterUntouched(usr, vehicleId, status) == usr
usrAfter(usr, vehicleId, status) ==
    IF status = "pending"
    THEN [usr EXCEPT !.pending = PushUnique(@, vehicleId)]
    ELSE IF status = "accepted"
    THEN [pending |-> Without(usr.pending, vehicleId),
          accepted |-> PushUnique(usr.accepted, vehicleId)]
    ELSE usr

\* a grant that moves the pair to accepted only if it was pending
updatePermissionStrict(b, vehicleId, userId, status) ==
    LET veh == getJSON(b.vehPerm, pathId(vehicleId), EmptyPerm)
        usr == getJSON(b.userPerm, pathId(userId), EmptyPerm)
        go == status = "pending" \/ Includes(veh.pending, userId)
    IN  [b EXCEPT
           !.vehPerm = putJSON(@, pathId(vehicleId),
                               JsonPerm(IF go THEN vehAfter(veh, userId, status) ELSE veh)),
           !.userPerm = putJSON(@, pathId(userId),
                                JsonPerm(IF go THEN usrAfter(usr, vehicleId, status) ELSE usr))]

\* updatePermission run to completion on store b with no store failure
updatePermission(b, vehicleId, userId, status) ==
    LET veh == getJSON(b.vehPerm, pathId(vehicleId), EmptyPerm)
        usr == getJSON(b.userPerm, pathId(userId), EmptyPerm)
    IN  [b EXCEPT
           !.vehPerm = putJSON(@, pathId(vehicleId), JsonPerm(vehAfter(veh, userId, status))),
           !.userPerm = putJSON(@, pathId(userId), JsonPerm(usrAfter(usr, vehicleId, status)))]

\* ------------------------------------------------------------ operations
NoCall == [status |-> "none", vehicleId |-> Undefined, userId |-> Undefined]
Call(status, vehicleId, userId) ==
    [status |-> status, vehicleId |-> vehicleId, userId |-> userId]
NoAck == [ok |-> FALSE, error |-> "none"]
Ok == [ok |-> TRUE, error |-> Undefined]
Failed(message) == [ok |-> FALSE, error |-> message]
NoRes == [ok |-> FALSE, count |-> 0, data |-> <<>>]
NoData == [vehicleId |-> Undefined, userId |-> Undefined]

Outcome(event, socket, data, call, ack, emits, res) ==
    [event |-> event, socket |-> socket, data |-> data, call |-> call,
     ack |-> ack, emits |-> emits, res |-> res, log |-> <<>>, reads |-> {}]

\* ns.to(room).emit(event, payload)
room(kind, id) == <<kind, Str(id)>>
Emit(kind, id, event, payload) ==
    [room |-> room(kind, id), event |-> event, payload |-> payload]

\* what socket s received from the last operation
Received(s) == SelectSeq(last.emits, LAMBDA e : e.room \in sockets[s].rooms)

Init ==
    /\ bucket = EmptyBucket
    /\ sockets = <<>>
    /\ userSockets = [k \in {} |-> {}]
    /\ vehicleSockets = [k \in {} |-> {}]
    /\ now = 1
    /\ last = Outcome("start", 0, NoData, NoCall, NoAck, <<>>, NoRes)
    /\ prev = NoCall
    /\ called = {}
    /\ steps = 0
    /\ inflight = <<>>

\* a registry that keeps one connection per identity: m.set(k, new Set([id]))
RegisterAlone(m, k, id) ==
    [x \in DOMAIN m \cup {k} |-> IF x = k THEN {id} ELSE m[x]]
\* Map: if (!m.has(k)) m.set(k, new Set()); m.get(k).add(id)
Register(m, k, id) ==
    [x \in DOMAIN m \cup {k} |-> IF x = k THEN (IF k \in DOMAIN m THEN m[k] ELSE {}) \cup {id}
                                 ELSE m[x]]
\* m.get(k)?.delete(id)
Unregister(m, k, id) ==
    [x \in DOMAIN m |-> IF x = k THEN m[x] \ {id} ELSE m[x]]

IsOpen(s) == s \in 1..Len(sockets) /\ sockets[s].status = "open"
\* const role = socket.data.role, read once by the connection handler
roleOf(s) == Field(sockets[s].data, "role")

\* A handshake with the given token: ns.use, then ns.on("connection");
\* cost is what the handshake takes of the step budget
ConnectRun(token, cost) ==
    /\ Len(sockets) < MaxSockets
    /\ steps + cost <= MaxSteps
    /\ LET id == Len(sockets) + 1
           auth == Authenticate(token)
           role == Field(auth.data, "role")
       IN  /\ IF ~auth.ok
              THEN /\ sockets' = Append(sockets,
                        [status |-> "rejected", token |-> token, data |-> EmptyObject, rooms |-> {}])
                   /\ UNCHANGED <<userSockets, vehicleSockets>>
              ELSE IF role = "user"
              THEN /\ sockets' = Append(sockets,
                        [status |-> "open", token |-> token, data |-> auth.data,
                         rooms |-> {room("user", auth.data.userId)}])
                   /\ userSockets' = Register(userSockets, auth.data.userId, id)
                   /\ UNCHANGED vehicleSockets
              ELSE IF role = "device"
              THEN /\ sockets' = Append(sockets,
                        [status |-> "open", token |-> token, data |-> auth.data,
                         rooms |-> {room("vehicle", auth.data.vehicleId)}])
                   /\ vehicleSockets' = Register(vehicleSockets, auth.data.vehicleId, id)
                   /\ UNCHANGED userSockets
              ELSE /\ sockets' = Append(sockets,
                        [status |-> "open", token |-> token, data |-> auth.data, rooms |-> {}])
                   /\ UNCHANGED <<userSockets, vehicleSockets>>
           /\ last' = Outcome("connect", id, NoData, NoCall, NoAck, <<>>, NoRes)
    /\ prev' = last.call
    /\ steps' = steps + cost
    /\ UNCHANGED <<inflight, bucket, now, called>>

Connect(token) == ConnectRun(token, 1)

\* socket.on("disconnect"); socket.io takes the socket out of its rooms
Disconnect(s) ==
    /\ IsOpen(s)
    /\ steps < MaxSteps
    /\ LET role == Field(sockets[s].data, "role")
       IN  /\ userSockets' = IF role = "user"
                             THEN Unregister(userSockets, sockets[s].data.userId, s)
                             ELSE userSockets
           /\ vehicleSockets' = IF role = "device"
                                THEN Unregister(vehicleSockets, sockets[s].data.vehicleId, s)
                                ELSE vehicleSockets
    /\ sockets' = [sockets EXCEPT ![s].status = "closed", ![s].rooms = {}]
    /\ last' = Outcome("disconnect", s, NoData, NoCall, NoAck, <<>>, NoRes)
    /\ prev' = last.call
    /\ steps' = steps + 1
    /\ UNCHANGED <<inflight, bucket, now, called>>

\* the server clock moves on
Tick ==
    /\ now < MaxClock
    /\ steps < MaxSteps
    /\ now' = now + 1
    /\ steps' = steps + 1
    /\ UNCHANGED <<inflight, bucket, sockets, userSockets, vehicleSockets, last, prev, called>>


\* ---------------------------------------------------------- socket events
Reports == { [lat |-> "12.9", lng |-> "77.6", speed |-> "40"],
             [lat |-> "13.0", lng |-> "77.7", speed |-> "0"] }
UpdatePayloads ==
    { [vehicleId |-> v, lat |-> r.lat, lng |-> r.lng, speed |-> r.speed] :
        v \in VehicleIds, r \in Reports }
PermissionPayloads ==
    [vehicleId : VehicleIds, userId : UserIds] \cup {[vehicleId |-> Undefined, userId |-> Undefined]}


\* the n-th PutObject of a handler that rejects; 0 when none does
PutFaults == 0..2
StoreError == "store error"

\* the side effects of one handler, in the order the handler makes them
Put(family, key, ok) == [kind |-> "put", family |-> family, key |-> key, ok |-> ok]
Pushed(e) == [kind |-> "emit", room |-> e.room, event |-> e.event]
Acked(ack) == [kind |-> "ack", ok |-> ack.ok]
Handled(event, socket, data, call, ack, emits, log) ==
    [Outcome(event, socket, data, call, ack, emits, NoRes) EXCEPT !.log = log]

\* a handler that lets every role through
permitsAnyRole(event, role) == TRUE
\* if (role !== "device") throw ..., if (role !== "user") throw ...
permits(event, role) == role = (IF event = "location:request" THEN "user" ELSE "device")

\* a payload that keeps what the client sent and only fills in a missing ts
reportClientTs(data, ts) ==
    [k \in DOMAIN data \cup {"vehicleId", "lat", "lng", "speed", "ts"} |->
        IF k \in DOMAIN data THEN data[k] ELSE IF k = "ts" THEN ts ELSE Undefined]
\* const { vehicleId, lat, lng, speed } = data; payload = { vehicleId, lat, lng, speed, ts }
report(data, ts) ==
    [vehicleId |-> Field(data, "vehicleId"), lat |-> Field(data, "lat"),
     lng |-> Field(data, "lng"), speed |-> Field(data, "speed"), ts |-> ts]

\* location:update, lines 164-176, for a device socket
acceptedOf(vehPerm) ==
    IF "accepted" \in DOMAIN vehPerm THEN vehPerm.accepted ELSE <<>>
\* the fan-out reading the pending list instead of the accepted list
FanOutPending(b, payload) ==
    LET pending == getJSON(b.vehPerm, pathId(payload.vehicleId), EmptyPerm).pending
    IN  [i \in 1..Len(pending) |-> Emit("user", pending[i], "location:live", payload)]
\* the fan-out emitting to every accepted user twice
FanOutTwice(b, payload) ==
    LET accepted == acceptedOf(getJSON(b.vehPerm, pathId(payload.vehicleId), EmptyObject))
    IN  [i \in 1..(2 * Len(accepted)) |->
            Emit("user", accepted[(i + 1) \div 2], "location:live", payload)]
FanOut(b, payload) ==
    LET accepted == acceptedOf(getJSON(b.vehPerm, pathId(payload.vehicleId), EmptyObject))
    IN  [i \in 1..Len(accepted) |-> Emit("user", accepted[i], "location:live", payload)]
Ingest(b, payload) ==
    LET body == JsonObject(payload, {"vehicleId", "lat", "lng", "speed"})
    IN  [b EXCEPT !.current = putJSON(@, pathId(payload.vehicleId), body),
                  !.history = putJSON(@, historyKey(payload.vehicleId, payload.ts), body)]

\* the two writes where a rejected PutObject is sent again and then succeeds
IngestRetry(b, payload, failPut) ==
    [ok |-> TRUE, bucket |-> Ingest(b, payload),
     puts |-> << Put("current", pathId(payload.vehicleId), failPut # 1),
                 Put("current", pathId(payload.vehicleId), TRUE),
                 Put("history", historyKey(payload.vehicleId, payload.ts), TRUE) >>]
\* await putJSON(current); await putJSON(history), the failPut-th rejecting
IngestRun(b, payload, failPut) ==
    LET done == Ingest(b, payload)
        current == pathId(payload.vehicleId)
        record == historyKey(payload.vehicleId, payload.ts)
    IN  IF failPut = 1
        THEN [ok |-> FALSE, bucket |-> b, puts |-> << Put("current", current, FALSE) >>]
        ELSE IF failPut = 2
        THEN [ok |-> FALSE, bucket |-> [b EXCEPT !.current = done.current],
              puts |-> << Put("current", current, TRUE), Put("history", record, FALSE) >>]
        ELSE [ok |-> TRUE, bucket |-> done,
              puts |-> << Put("current", current, TRUE), Put("history", record, TRUE) >>]

\* an updatePermission that puts the vehicle document back as it was when
\* the write of the user document fails
updatePermissionRollback(b, vehicleId, userId, status, failPut) ==
    [ok |-> failPut = 0,
     bucket |-> IF failPut = 0 THEN updatePermission(b, vehicleId, userId, status) ELSE b,
     puts |-> << Put("vehPerm", pathId(vehicleId), failPut # 1) >>
              \o (IF failPut = 1 THEN <<>>
                  ELSE << Put("userPerm", pathId(userId), failPut # 2) >>)]
\* await updatePermission(...), the failPut-th putJSON of it rejecting
updatePermissionRun(b, vehicleId, userId, status, failPut) ==
    LET done == updatePermission(b, vehicleId, userId, status)
        veh == pathId(vehicleId)
        usr == pathId(userId)
    IN  IF failPut = 1
        THEN [ok |-> FALSE, bucket |-> b, puts |-> << Put("vehPerm", veh, FALSE) >>]
        ELSE IF failPut = 2
        THEN [ok |-> FALSE, bucket |-> [b EXCEPT !.vehPerm = done.vehPerm],
              puts |-> << Put("vehPerm", veh, TRUE), Put("userPerm", usr, FALSE) >>]
        ELSE [ok |-> TRUE, bucket |-> done,
              puts |-> << Put("vehPerm", veh, TRUE), Put("userPerm", usr, TRUE) >>]

\* the getJSON calls of a handler that fail, by key family
GetFaults == SUBSET {"vehPerm", "userPerm"}

\* a getJSON that is sent again when it fails, and then answered
getJSONRetry(objects, key, fallback, fails) == getJSON(objects, key, fallback)
\* getJSON whose GetObject may reject: the catch returns the fallback
getJSONRun(objects, key, fallback, fails) ==
    IF fails THEN fallback ELSE getJSON(objects, key, fallback)

\* updatePermission with the reads in failGet failing and no write failing
updatePermissionBlind(b, vehicleId, userId, status, failGet) ==
    LET veh == getJSONRun(b.vehPerm, pathId(vehicleId), EmptyPerm, "vehPerm" \in failGet)
        usr == getJSONRun(b.userPerm, pathId(userId), EmptyPerm, "userPerm" \in failGet)
    IN  [ok |-> TRUE,
         bucket |-> [b EXCEPT
            !.vehPerm = putJSON(@, pathId(vehicleId), JsonPerm(vehAfter(veh, userId, status))),
            !.userPerm = putJSON(@, pathId(userId), JsonPerm(usrAfter(usr, vehicleId, status)))],
         puts |-> << Put("vehPerm", pathId(vehicleId), TRUE),
                     Put("userPerm", pathId(userId), TRUE) >>]

\* the fan-out with its read of the vehicle document failing
FanOutBlind(b, payload, failGet) ==
    LET accepted == acceptedOf(getJSONRun(b.vehPerm, pathId(payload.vehicleId), EmptyObject,
                                          "vehPerm" \in failGet))
    IN  [i \in 1..Len(accepted) |-> Emit("user", accepted[i], "location:live", payload)]

\* a handler that emits its pushes first and writes afterwards
settlePushFirst(run, emits) ==
    LET ack == IF run.ok THEN Ok ELSE Failed(StoreError)
    IN  [ack |-> ack, emits |-> emits,
         log |-> [i \in 1..Len(emits) |-> Pushed(emits[i])] \o run.puts \o << Acked(ack) >>]
\* the rest of a try block after its awaited writes: the pushes and
\* ack({ ok: true }), or from the catch ack({ ok: false, error })
settle(run, emits) ==
    IF run.ok
    THEN [ack |-> Ok, emits |-> emits,
          log |-> run.puts \o [i \in 1..Len(emits) |-> Pushed(emits[i])] \o << Acked(Ok) >>]
    ELSE [ack |-> Failed(StoreError), emits |-> <<>>,
          log |-> run.puts \o << Acked(Failed(StoreError)) >>]

\* the catch of a handler that threw before any write
Refused(event, s, data, message) ==
    Handled(event, s, data, NoCall, Failed(message), <<>>, << Acked(Failed(message)) >>)

\* socket.on("location:update"), the failPut-th write of it failing; the
\* values of a handler are bound with \E over a one-element set, so that each
\* is computed once
LocationUpdateRun(s, data, failPut, failGet) ==
    /\ steps < MaxSteps
    /\ IsOpen(s)
    /\ IF ~permits("location:update", roleOf(s))
       THEN /\ last' = Refused("location:update", s, data, "Only devices can send")
            /\ UNCHANGED bucket
       ELSE \E payload \in {report(data, now)} :
            \E run \in {IngestRun(bucket, payload, failPut)} :
            \E end \in {settle(run, IF failGet = {} THEN FanOut(run.bucket, payload)
                                     ELSE FanOutBlind(run.bucket, payload, failGet))} :
                /\ bucket' = run.bucket
                /\ last' = [Handled("location:update", s, data, NoCall,
                                    end.ack, end.emits, end.log) EXCEPT !.reads = failGet]
    /\ prev' = last.call
    /\ steps' = steps + 1
    /\ UNCHANGED <<inflight, sockets, userSockets, vehicleSockets, now, called>>

LocationUpdate(s, data) == LocationUpdateRun(s, data, 0, {})

\* a handler that takes the requesting user from the payload
requesterFromPayload(s, data) == Field(data, "userId")
\* the user a request is recorded for: socket.data.userId
requester(s, data) == Field(sockets[s].data, "userId")

\* location:request
LocationRequestRun(s, data, failPut, failGet) ==
    /\ steps < MaxSteps
    /\ IsOpen(s)
    /\ IF ~permits("location:request", roleOf(s))
       THEN /\ last' = Refused("location:request", s, data, "Only users can request")
            /\ UNCHANGED <<bucket, called>>
       ELSE IF ~Truthy(Field(data, "vehicleId"))
       THEN /\ last' = Refused("location:request", s, data, "vehicleId required")
            /\ UNCHANGED <<bucket, called>>
       ELSE \E userId \in {requester(s, data)} :
            \E call \in {Call("pending", data.vehicleId, userId)} :
            \E run \in {IF failGet = {}
                        THEN updatePermissionRun(bucket, data.vehicleId, userId, "pending", failPut)
                        ELSE updatePermissionBlind(bucket, data.vehicleId, userId, "pending",
                                                   failGet)} :
            \E end \in {settle(run, << Emit("vehicle", data.vehicleId, "user:locationPermission",
                                           [userId |-> userId, vehicleId |-> data.vehicleId,
                                            ts |-> now]) >>)} :
                /\ bucket' = run.bucket
                /\ called' = IF run.ok THEN called \cup {call} ELSE called
                /\ last' = [Handled("location:request", s, data,
                                    IF run.ok THEN call ELSE NoCall,
                                    end.ack, end.emits, end.log) EXCEPT !.reads = failGet]
    /\ prev' = last.call
    /\ steps' = steps + 1
    /\ UNCHANGED <<inflight, sockets, userSockets, vehicleSockets, now>>

LocationRequest(s, data) == LocationRequestRun(s, data, 0, {})

\* permission:granted
PermissionGrantedRun(s, data, failPut, failGet) ==
    /\ steps < MaxSteps
    /\ IsOpen(s)
    /\ IF ~permits("permission:granted", roleOf(s))
       THEN /\ last' = Refused("permission:granted", s, data, "Only devices can approve")
            /\ UNCHANGED <<bucket, called>>
       ELSE \E vehicleId \in {Field(data, "vehicleId")}, userId \in {Field(data, "userId")} :
            \E call \in {Call("accepted", vehicleId, userId)} :
            \E run \in {IF failGet = {}
                        THEN updatePermissionRun(bucket, vehicleId, userId, "accepted", failPut)
                        ELSE updatePermissionBlind(bucket, vehicleId, userId, "accepted",
                                                   failGet)} :
            \E end \in {settle(run, << Emit("user", userId, "permission:granted",
                                           [vehicleId |-> vehicleId, userId |-> userId]) >>)} :
                /\ bucket' = run.bucket
                /\ called' = IF run.ok THEN called \cup {call} ELSE called
                /\ last' = [Handled("permission:granted", s, data,
                                    IF run.ok THEN call ELSE NoCall,
                                    end.ack, end.emits, end.log) EXCEPT !.reads = failGet]
    /\ prev' = last.call
    /\ steps' = steps + 1
    /\ UNCHANGED <<inflight, sockets, userSockets, vehicleSockets, now>>

PermissionGranted(s, data) == PermissionGrantedRun(s, data, 0, {})


\* --------------------------------------------------------- history query
HistoryCap == 2000

\* req.query.from / req.query.to: absent, or the decimal text of a number
QueryParams ==
    {[present |-> FALSE, value |-> 0]} \cup {[present |-> TRUE, value |-> n] : n \in 0..MaxClock}
\* req.query.x ? Number(req.query.x) : null
Bound(param) ==
    IF param.present THEN [null |-> FALSE, n |-> param.value] ELSE [null |-> TRUE, n |-> 0]
\* !bound, for null or a number
Not(bound) == bound.null \/ bound.n = 0
InRange(ts, from, to) == (Not(from) \/ ts >= from.n) /\ (Not(to) \/ ts <= to.n)

\* the keys the store holds under vehicles/<vehicleId>/history/
listObjects(b, vehicleId) == {k \in DOMAIN b.history : k.vehicle = vehicleId}

RECURSIVE sortByTs(_)
sortByTs(keys) ==
    IF keys = {} THEN <<>>
    ELSE LET k == CHOOSE x \in keys : \A y \in keys : x.ts <= y.ts
         IN  <<k>> \o sortByTs(keys \ {k})

\* arr.slice(0, n): the oldest n kept instead of the newest
sliceFirst(arr, n) == IF Len(arr) <= n THEN arr ELSE SubSeq(arr, 1, n)
\* arr.slice(-n)
sliceLast(arr, n) == IF Len(arr) <= n THEN arr ELSE SubSeq(arr, Len(arr) - n + 1, Len(arr))

\* MaxKeys of the ListObjectsV2Command
MaxKeys == 1000
\* the page size and the cap scaled down, so that a small store spans several
\* pages and holds more records than the cap
PageSize == 1
SmallCap == 1

\* a store request of the route that fails: the at-th listing page, or the
\* at-th GetObject
NoFault == [op |-> "none", at |-> 0]
Faults == {NoFault} \cup {[op |-> "list", at |-> n] : n \in 1..2} \cup {[op |-> "get", at |-> 1]}

\* one ListObjectsV2 call: at most maxKeys keys, in key order, after the
\* continuation token (the number of keys already listed; none at the start)
listPage(b, vehicleId, token, maxKeys) ==
    LET all == sortByTs(listObjects(b, vehicleId))
        n == IF Len(all) - token < maxKeys THEN Len(all) - token ELSE maxKeys
    IN  [Contents |-> SubSeq(all, token + 1, token + n),
         IsTruncated |-> token + n < Len(all),
         NextContinuationToken |-> token + n]

\* a listing that reads the first page only
listFirstPage(b, vehicleId, token, maxKeys, fault, page) ==
    IF fault.op = "list" /\ fault.at = page
    THEN [ok |-> FALSE, keys |-> {}]
    ELSE LET out == listPage(b, vehicleId, token, maxKeys)
         IN  [ok |-> TRUE, keys |-> {out.Contents[i] : i \in 1..Len(out.Contents)}]

\* do { out = send(List...) ; ... ; token = out.IsTruncated ? next : null } while (token)
\* page counts the calls made; a failed call throws out of the loop
RECURSIVE listLoop(_, _, _, _, _, _)
listLoop(b, vehicleId, token, maxKeys, fault, page) ==
    IF fault.op = "list" /\ fault.at = page
    THEN [ok |-> FALSE, keys |-> {}]
    ELSE LET out == listPage(b, vehicleId, token, maxKeys)
             got == {out.Contents[i] : i \in 1..Len(out.Contents)}
         IN  IF out.IsTruncated /\ out.NextContinuationToken # 0
             THEN LET rest == listLoop(b, vehicleId, out.NextContinuationToken,
                                       maxKeys, fault, page + 1)
                  IN  [ok |-> rest.ok, keys |-> got \cup rest.keys]
             ELSE [ok |-> TRUE, keys |-> got]

\* res.status(500).json({ ok: false, error: e.message })
ServerError == [ok |-> FALSE, error |-> "store error"]

\* the route's try block with page size maxKeys and cap cap, one store
\* request failing as fault says
historyRun(b, vehicleId, fromQ, toQ, maxKeys, cap, fault) ==
    LET from == Bound(fromQ)
        to == Bound(toQ)
        listed == listLoop(b, vehicleId, 0, maxKeys, fault, 1)
        keys == sortByTs({k \in listed.keys : InRange(k.ts, from, to)})
        kept == sliceLast(keys, cap)
        results == [i \in 1..Len(kept) |-> b.history[kept[i]]]
    IN  IF ~listed.ok THEN ServerError
        ELSE IF fault.op = "get" /\ fault.at <= Len(kept) THEN ServerError
        ELSE [ok |-> TRUE, count |-> Len(results), data |-> results]

history(b, vehicleId, fromQ, toQ) ==
    historyRun(b, vehicleId, fromQ, toQ, MaxKeys, HistoryCap, NoFault)

\* GET /api/history/:vehicleId
HistoryRoute(vehicleId, fromQ, toQ, maxKeys, cap, fault) ==
    /\ last' = Outcome("history", 0,
                       [vehicleId |-> vehicleId, from |-> fromQ, to |-> toQ,
                        maxKeys |-> maxKeys, cap |-> cap, fault |-> fault],
                       NoCall, NoAck, <<>>,
                       historyRun(bucket, vehicleId, fromQ, toQ, maxKeys, cap, fault))
    /\ prev' = last.call
    /\ UNCHANGED <<inflight, bucket, sockets, userSockets, vehicleSockets, now, called, steps>>

HistoryQuery(vehicleId, fromQ, toQ) ==
    HistoryRoute(vehicleId, fromQ, toQ, MaxKeys, HistoryCap, NoFault)

\* ------------------------------------------------------ permissions query
\* GET /api/user/:userId/permissions and GET /api/vehicle/:vehicleId/permissions:
\* res.json(await getJSON(key))
PermissionsRoute(kind, id, fails) ==
    /\ last' = [Outcome("permissions", 0, [kind |-> kind, id |-> id, fails |-> fails],
                        NoCall, NoAck, <<>>, NoRes)
                   EXCEPT !.res = getJSONRun(IF kind = "user" THEN bucket.userPerm
                                                              ELSE bucket.vehPerm,
                                             pathId(id), EmptyObject, fails)]
    /\ prev' = last.call
    /\ UNCHANGED <<inflight, bucket, sockets, userSockets, vehicleSockets, now, called, steps>>

\* ---------------------------------------------------- interleaved handlers
\* Handlers of events that passed their checks, each stopping at its awaits,
\* so that the store requests of several handlers interleave. No store
\* request fails.
MaxFlights == 2

Running == {h \in 1..Len(inflight) : inflight[h].pc # "done"}
Others == <<sockets, userSockets, vehicleSockets, now, last, prev, called, steps>>

\* updatePermission(vehicleId, userId, status) is called, and the getJSON of
\* the vehicle document is answered
ReadVeh(vehicleId, userId, status) ==
    /\ Len(inflight) < MaxFlights
    /\ inflight' = Append(inflight,
          [op |-> status, vehicleId |-> vehicleId, userId |-> userId, pc |-> "readUsr",
           veh |-> getJSON(bucket.vehPerm, pathId(vehicleId), EmptyPerm),
           usr |-> EmptyPerm, payload |-> EmptyObject, emits |-> <<>>,
           overlap |-> Running # {}])
    /\ UNCHANGED <<bucket, Others>>

\* the getJSON of the user document is answered; lines 111-119 then change
\* the two documents read
ReadUsr(h) ==
    /\ h \in Running /\ inflight[h].pc = "readUsr"
    /\ LET f == inflight[h]
           usr == getJSON(bucket.userPerm, pathId(f.userId), EmptyPerm)
       IN  inflight' = [inflight EXCEPT ![h].pc = "putVeh",
                                        ![h].veh = vehAfter(f.veh, f.userId, f.op),
                                        ![h].usr = usrAfter(usr, f.vehicleId, f.op)]
    /\ UNCHANGED <<bucket, Others>>

\* await putJSON(paths.vehPerm(vehicleId), veh)
PutVeh(h) ==
    /\ h \in Running /\ inflight[h].pc = "putVeh"
    /\ bucket' = [bucket EXCEPT !.vehPerm =
                     putJSON(@, pathId(inflight[h].vehicleId), JsonPerm(inflight[h].veh))]
    /\ inflight' = [inflight EXCEPT ![h].pc = "putUsr"]
    /\ UNCHANGED Others

\* await putJSON(paths.userPerm(userId), usr); the handler then emits and
\* acks ok:true
PutUsr(h) ==
    /\ h \in Running /\ inflight[h].pc = "putUsr"
    /\ bucket' = [bucket EXCEPT !.userPerm =
                     putJSON(@, pathId(inflight[h].userId), JsonPerm(inflight[h].usr))]
    /\ inflight' = [inflight EXCEPT ![h].pc = "done"]
    /\ UNCHANGED Others

\* a location:update of a device passes the role check; ts = Date.now() and
\* the payload are taken, and the putJSON of the current document is sent
StampUpdate(data) ==
    /\ Len(inflight) < MaxFlights
    /\ inflight' = Append(inflight,
          [op |-> "update", vehicleId |-> data.vehicleId, userId |-> Undefined,
           pc |-> "putCurrent", veh |-> EmptyPerm, usr |-> EmptyPerm,
           payload |-> report(data, now), emits |-> <<>>,
           overlap |-> Running # {}])
    /\ UNCHANGED <<bucket, Others>>

\* await putJSON(paths.current(vehicleId), payload)
PutCurrent(h) ==
    /\ h \in Running /\ inflight[h].pc = "putCurrent"
    /\ LET payload == inflight[h].payload
           body == JsonObject(payload, {"vehicleId", "lat", "lng", "speed"})
       IN  bucket' = [bucket EXCEPT !.current = putJSON(@, pathId(payload.vehicleId), body)]
    /\ inflight' = [inflight EXCEPT ![h].pc = "putHistory"]
    /\ UNCHANGED Others

\* await putJSON(paths.history(vehicleId, ts), payload)
PutHistory(h) ==
    /\ h \in Running /\ inflight[h].pc = "putHistory"
    /\ LET payload == inflight[h].payload
           body == JsonObject(payload, {"vehicleId", "lat", "lng", "speed"})
       IN  bucket' = [bucket EXCEPT !.history =
                         putJSON(@, historyKey(payload.vehicleId, payload.ts), body)]
    /\ inflight' = [inflight EXCEPT ![h].pc = "fanOut"]
    /\ UNCHANGED Others

\* the getJSON of the vehicle document is answered; the handler emits
\* location:live to the accepted users and acks ok:true
LiveFanOut(h) ==
    /\ h \in Running /\ inflight[h].pc = "fanOut"
    /\ inflight' = [inflight EXCEPT ![h].pc = "done",
                                    ![h].emits = FanOut(bucket, inflight[h].payload)]
    /\ UNCHANGED <<bucket, Others>>

\* --------------------------------------------------------- specifications
Next ==
    \/ \E token \in DemoTokens : Connect(token)
    \/ \E s \in 1..Len(sockets) : Disconnect(s)
    \/ \E s \in 1..Len(sockets), data \in UpdatePayloads : LocationUpdate(s, data)
    \/ \E s \in 1..Len(sockets), data \in PermissionPayloads : LocationRequest(s, data)
    \/ \E s \in 1..Len(sockets), data \in PermissionPayloads : PermissionGranted(s, data)
    \/ Tick

Spec == Init /\ [][Next]_vars

\* the same server, offered every kind of handshake token, each socket then
\* sending events about one vehicle and one user
AuthUpdates == {d \in UpdatePayloads : d.vehicleId = "V1" /\ d.speed = "40"}
AuthPermissions == {d \in PermissionPayloads : d.vehicleId = "V1" /\ d.userId = "U1"}
NextAuth ==
    \/ \E token \in Tokens : Connect(token)
    \/ \E s \in 1..Len(sockets) : Disconnect(s)
    \/ \E s \in 1..Len(sockets), data \in AuthUpdates : LocationUpdate(s, data)
    \/ \E s \in 1..Len(sockets), data \in AuthPermissions : LocationRequest(s, data)
    \/ \E s \in 1..Len(sockets), data \in AuthPermissions : PermissionGranted(s, data)

SpecAuth == Init /\ [][NextAuth]_vars

\* a device connects, reports positions, and the history is queried
NextHistory ==
    \/ \E v \in VehicleIds : Connect(login(v, "device"))
    \/ \E s \in 1..Len(sockets), data \in UpdatePayloads : LocationUpdate(s, data)
    \/ \E v \in VehicleIds, fromQ \in QueryParams, toQ \in QueryParams : HistoryQuery(v, fromQ, toQ)
    \/ Tick

SpecHistory == Init /\ [][NextHistory]_vars

\* the history route with the page size and the cap scaled down, and with
\* store requests that may fail
RestUpdates == {d \in UpdatePayloads : d.speed = "40"}
RestParams == {q \in QueryParams : ~q.present \/ q.value > 0}
NextRest ==
    \/ Connect(login("V1", "device"))
    \/ \E s \in 1..Len(sockets), data \in RestUpdates : LocationUpdate(s, data)
    \/ \E v \in VehicleIds, fromQ \in RestParams, toQ \in RestParams, fault \in Faults :
           HistoryRoute(v, fromQ, toQ, PageSize, SmallCap, fault)
    \/ Tick

SpecRest == Init /\ [][NextRest]_vars

\* the scenario of one user with two dashboards and one device, every
\* connection staying open: the handshakes are bounded by MaxSockets alone,
\* the events by the step budget
ScenarioTokens == {login("U1", "user"), login("V2", "device")}
ScenarioUpdates == {d \in UpdatePayloads : d.vehicleId = "V2"}
ScenarioPermissions == {d \in PermissionPayloads : d.vehicleId = "V2" /\ d.userId = "U1"}
NextScenario ==
    \/ \E token \in ScenarioTokens : ConnectRun(token, 0)
    \/ \E s \in 1..Len(sockets), data \in ScenarioUpdates : LocationUpdate(s, data)
    \/ \E s \in 1..Len(sockets), data \in ScenarioPermissions : LocationRequest(s, data)
    \/ \E s \in 1..Len(sockets), data \in ScenarioPermissions : PermissionGranted(s, data)
    \/ Tick

SpecScenario == Init /\ [][NextScenario]_vars

\* one user and one device over a store whose requests may fail; the
\* device's reports may carry a ts and other fields of the client's own
ClientUpdates ==
    { [vehicleId |-> "V1", lat |-> r.lat, lng |-> r.lng, speed |-> r.speed] : r \in Reports }
    \cup { [vehicleId |-> "V1", lat |-> "12.9", lng |-> "77.6", speed |-> "40",
            ts |-> 0, heading |-> "N"] }
NextFaults ==
    \/ \E token \in {login("U1", "user"), login("V1", "device")} : Connect(token)
    \/ \E s \in 1..Len(sockets), data \in ClientUpdates, failPut \in PutFaults :
           LocationUpdateRun(s, data, failPut, {})
    \/ \E s \in 1..Len(sockets), data \in AuthPermissions, failPut \in PutFaults :
           LocationRequestRun(s, data, failPut, {})
    \/ \E s \in 1..Len(sockets), data \in AuthPermissions, failPut \in PutFaults :
           PermissionGrantedRun(s, data, failPut, {})
    \/ \E id \in UserIds, fails \in BOOLEAN : PermissionsRoute("user", id, fails)
    \/ \E id \in VehicleIds, fails \in BOOLEAN : PermissionsRoute("vehicle", id, fails)
    \/ Tick

SpecFaults == Init /\ [][NextFaults]_vars

\* two users and one device over a store whose reads may fail
ReadPermissions == {d \in PermissionPayloads : d.vehicleId = "V1"}
NextReads ==
    \/ \E token \in {login("U1", "user"), login("U2", "user"), login("V1", "device")} :
           Connect(token)
    \/ \E s \in 1..Len(sockets), data \in AuthUpdates, failGet \in GetFaults :
           LocationUpdateRun(s, data, 0, failGet)
    \/ \E s \in 1..Len(sockets), data \in ReadPermissions, failGet \in GetFaults :
           LocationRequestRun(s, data, 0, failGet)
    \/ \E s \in 1..Len(sockets), data \in ReadPermissions, failGet \in GetFaults :
           PermissionGrantedRun(s, data, 0, failGet)

SpecReads == Init /\ [][NextReads]_vars

\* request and grant handlers whose store requests interleave
RacePairs == VehicleIds \X UserIds
NextRace ==
    \/ \E p \in RacePairs, status \in {"pending", "accepted"} : ReadVeh(p[1], p[2], status)
    \/ \E h \in 1..Len(inflight) : ReadUsr(h)
    \/ \E h \in 1..Len(inflight) : PutVeh(h)
    \/ \E h \in 1..Len(inflight) : PutUsr(h)

SpecRace == Init /\ [][NextRace]_vars

\* location:update handlers of device V1 whose store requests interleave,
\* while the server clock moves on
NextReports ==
    \/ \E data \in ClientUpdates : StampUpdate(data)
    \/ \E h \in 1..Len(inflight) : PutCurrent(h)
    \/ \E h \in 1..Len(inflight) : PutHistory(h)
    \/ \E h \in 1..Len(inflight) : LiveFanOut(h)
    \/ Tick

SpecReports == Init /\ [][NextReports]_vars

\* request(vehicleId, userId) and grant(vehicleId, userId) of the permission
\* state machine: updatePermission called directly, one call at a time
Request(vehicleId, userId) ==
    /\ bucket' = updatePermission(bucket, vehicleId, userId, "pending")
    /\ called' = called \cup {Call("pending", vehicleId, userId)}
    /\ last' = Outcome("request", 0, NoData, Call("pending", vehicleId, userId), Ok, <<>>, NoRes)
    /\ prev' = last.call
    /\ UNCHANGED <<inflight, sockets, userSockets, vehicleSockets, now, steps>>

Grant(vehicleId, userId) ==
    /\ bucket' = updatePermission(bucket, vehicleId, userId, "accepted")
    /\ called' = called \cup {Call("accepted", vehicleId, userId)}
    /\ last' = Outcome("grant", 0, NoData, Call("accepted", vehicleId, userId), Ok, <<>>, NoRes)
    /\ prev' = last.call
    /\ UNCHANGED <<inflight, sockets, userSockets, vehicleSockets, now, steps>>

NextPerm ==
    \/ \E v \in VehicleIds, u \in UserIds : Request(v, u)
    \/ \E v \in VehicleIds, u \in UserIds : Grant(v, u)

SpecPerm == Init /\ [][NextPerm]_vars


\* ------------------------------------------------------------- properties
\* The permission documents as the store holds them now.
vehDoc(v) == IF v \in DOMAIN bucket.vehPerm THEN bucket.vehPerm[v] ELSE EmptyPerm
usrDoc(u) == IF u \in DOMAIN bucket.userPerm THEN bucket.userPerm[u] ELSE EmptyPerm
Has(arr, x) == x \in {arr[i] : i \in 1..Len(arr)}
Pairs == VehicleIds \X UserIds

\* the pair is Accepted: in accepted and not in pending, in both documents
Accepted(v, u) ==
    /\ Has(vehDoc(v).accepted, u) /\ ~Has(vehDoc(v).pending, u)
    /\ Has(usrDoc(u).accepted, v) /\ ~Has(usrDoc(u).pending, v)

\* C1: after any sequence of request and grant calls run one at a time from
\* an empty store, u is pending in v's vehicle document iff v is pending in
\* u's user document, and likewise for accepted.
C1_Symmetry ==
    \A p \in Pairs :
        /\ Has(vehDoc(p[1]).pending, p[2]) <=> Has(usrDoc(p[2]).pending, p[1])
        /\ Has(vehDoc(p[1]).accepted, p[2]) <=> Has(usrDoc(p[2]).accepted, p[1])

\* a store in which one pair is pending, another accepted, and a grant just ran
C1_Witness ==
    /\ last.call = Call("accepted", "V1", "U1")
    /\ Has(vehDoc("V1").accepted, "U1") /\ Has(usrDoc("U1").accepted, "V1")
    /\ Has(vehDoc("V1").pending, "U2") /\ Has(usrDoc("U2").pending, "V1")
    /\ ~Has(vehDoc("V2").pending, "U1")

\* C6: grant(v, u) right after request(v, u) leaves u out of pending and in
\* accepted of v's vehicle document, and v out of pending and in accepted of
\* u's user document, so in neither document is the counterpart both pending
\* and accepted.
C6_GrantAfterRequest ==
    \A p \in Pairs :
        (prev = Call("pending", p[1], p[2]) /\ last.call = Call("accepted", p[1], p[2]))
            => Accepted(p[1], p[2])

C6_Witness ==
    /\ prev = Call("pending", "V2", "U1")
    /\ last.call = Call("accepted", "V2", "U1")
    /\ Has(vehDoc("V2").accepted, "U1")
    /\ Has(vehDoc("V2").pending, "U2")

\* C7: once a pair has been granted, every later request or grant leaves it
\* Accepted: in accepted and not in pending in both documents.
C7_AcceptedTerminal ==
    \A p \in Pairs : Call("accepted", p[1], p[2]) \in called => Accepted(p[1], p[2])

\* C8: for every store and every pair, request run twice in a row leaves the
\* documents that request run once leaves, and likewise grant.
C8_Idempotent ==
    \A p \in Pairs, status \in {"pending", "accepted"} :
        updatePermission(updatePermission(bucket, p[1], p[2], status), p[1], p[2], status)
            = updatePermission(bucket, p[1], p[2], status)

\* the same request, and the same grant, did run twice in a row
C8_Witness ==
    /\ prev = last.call
    /\ last.call = Call("accepted", "V1", "U2")
    /\ Call("pending", "V1", "U2") \in called
    /\ Has(vehDoc("V1").pending, "U1")


\* what the claims say of a handshake token, in the token's own terms
Verifies(token) == token.present /\ token.parts = 3 /\ token.signed /\ token.json
Decodes(token) == token.present /\ token.parts >= 2 /\ token.json
HasRoleAndSub(token) == {"role", "sub"} \subseteq DOMAIN token.body
InvalidCredential(token) ==
    ~token.present \/ ~((Verifies(token) \/ Decodes(token)) /\ HasRoleAndSub(token))
Registered(s) ==
    \/ \E k \in DOMAIN userSockets : s \in userSockets[k]
    \/ \E k \in DOMAIN vehicleSockets : s \in vehicleSockets[k]
SocketEvents == {"location:update", "location:request", "permission:granted"}

\* C2: after a successful location:update for vehicle V, the sockets that got
\* the location:live push are exactly the open user sockets whose userId is in
\* the accepted list of V's vehicle document; no other socket got any event.
C2_FanOutExact ==
    (last.event = "location:update" /\ last.ack.ok) =>
        \A s \in 1..Len(sockets) :
            /\ \A i \in 1..Len(Received(s)) :
                   /\ Received(s)[i].event = "location:live"
                   /\ Received(s)[i].payload.vehicleId = last.data.vehicleId
            /\ Received(s) # <<>>
                 <=> /\ sockets[s].status = "open"
                     /\ Field(sockets[s].data, "role") = "user"
                     /\ Has(vehDoc(last.data.vehicleId).accepted, sockets[s].data.userId)

\* an update pushed to an accepted user's socket while another user's socket
\* and the device's socket are open and get nothing
C2_Witness ==
    /\ last.event = "location:update" /\ last.ack.ok
    /\ \E s1, s2, s3 \in 1..Len(sockets) :
          /\ Field(sockets[s1].data, "role") = "user" /\ Len(Received(s1)) = 1
          /\ sockets[s2].status = "open" /\ Field(sockets[s2].data, "role") = "user"
          /\ Received(s2) = <<>>
          /\ sockets[s3].status = "open" /\ Field(sockets[s3].data, "role") = "device"
          /\ Received(s3) = <<>>

\* C3: a socket whose token is missing, or neither verifies nor decodes to a
\* payload with role and sub, is rejected: it has no role, is in no room and
\* in neither registry, and no socket event of it is ever handled.
C3_InvalidRejected ==
    \A s \in 1..Len(sockets) :
        InvalidCredential(sockets[s].token) =>
            /\ sockets[s].status = "rejected"
            /\ sockets[s].data = EmptyObject
            /\ sockets[s].rooms = {}
            /\ ~Registered(s)
            /\ last.socket = s => last.event \notin SocketEvents

\* a missing token and a decodable token without sub were both rejected, and
\* a socket with a valid token went on to have an event handled
C3_Witness ==
    /\ \E s \in 1..Len(sockets) :
          ~sockets[s].token.present /\ sockets[s].status = "rejected"
    /\ \E s \in 1..Len(sockets) :
          /\ Decodes(sockets[s].token) /\ "sub" \notin DOMAIN sockets[s].token.body
          /\ sockets[s].status = "rejected"
    /\ last.event \in SocketEvents /\ last.ack.ok

\* C4: a socket is bound to a role only when the payload's role is exactly
\* user or exactly device; any other role value is rejected.
C4_OnlyUserOrDevice ==
    \A s \in 1..Len(sockets) :
        Field(sockets[s].token.body, "role") \notin {"user", "device"}
            => sockets[s].status = "rejected" /\ sockets[s].data = EmptyObject

\* C5: a token that fails verification but whose second part decodes to JSON
\* with role and sub is accepted and bound to exactly that role and identity.
C5_FallbackBindsPayload ==
    \A s \in 1..Len(sockets) :
        LET token == sockets[s].token
            data == sockets[s].data
        IN  (~Verifies(token) /\ Decodes(token) /\ HasRoleAndSub(token)) =>
                /\ sockets[s].status # "rejected"
                /\ Field(data, "role") = token.body.role
                /\ token.body.sub \in {Field(data, "userId"), Field(data, "vehicleId")}

\* C9: permission:granted from a device socket for a pair that was never
\* requested is acked ok:true and leaves the pair accepted and not pending in
\* both documents.
C9_GrantWithoutRequest ==
    \A p \in Pairs :
        ( /\ last.event = "permission:granted"
          /\ Field(sockets[last.socket].data, "role") = "device"
          /\ last.data = [vehicleId |-> p[1], userId |-> p[2]]
          /\ Call("pending", p[1], p[2]) \notin called )
        => last.ack = Ok /\ Accepted(p[1], p[2])

C9_Witness ==
    /\ last.event = "permission:granted" /\ last.ack = Ok
    /\ last.data = [vehicleId |-> "V1", userId |-> "U2"]
    /\ called = {Call("accepted", "V1", "U2")}
    /\ Accepted("V1", "U2")

\* C10: the history query returns only records with from <= ts <= to for the
\* bounds supplied (an absent bound is unbounded), in strictly ascending ts
\* order, so with no ts twice.
C10_HistoryWithinBounds ==
    last.event = "history" =>
        LET d == last.res.data
            q == last.data
        IN  /\ \A i \in 1..Len(d) :
                   /\ q.from.present => d[i].ts >= q.from.value
                   /\ q.to.present => d[i].ts <= q.to.value
            /\ \A i \in 1..(Len(d) - 1) : d[i].ts < d[i + 1].ts

\* the history records of the queried vehicle whose ts lies within the bounds
\* the query supplied, by ts
Matching(q) ==
    {k.ts : k \in {x \in DOMAIN bucket.history :
                      /\ x.vehicle = q.vehicleId
                      /\ q.from.present => x.ts >= q.from.value
                      /\ q.to.present => x.ts <= q.to.value}}
Returned == {last.res.data[i].ts : i \in 1..Len(last.res.data)}

\* C11: when more history records match the query bounds than the cap, the
\* history query returns exactly cap-many records, those with the highest ts,
\* in ascending ts order, and count equals the cap; when at most cap-many
\* match, all of them are returned.
C11_CapKeepsNewest ==
    (last.event = "history" /\ last.res.ok) =>
        LET d == last.res.data
            M == Matching(last.data)
        IN  /\ last.res.count = Len(d)
            /\ \A i \in 1..(Len(d) - 1) : d[i].ts < d[i + 1].ts
            /\ IF Cardinality(M) > last.data.cap
               THEN /\ Len(d) = last.data.cap
                    /\ Returned \subseteq M
                    /\ \A m \in M \ Returned : \A r \in Returned : m < r
               ELSE M \subseteq Returned

\* a query with a lower bound that more records match than the cap allows
C11_Witness ==
    /\ last.event = "history" /\ last.res.ok
    /\ last.data.from.present
    /\ Cardinality(Matching(last.data)) > last.data.cap
    /\ last.res.count = last.data.cap

\* the listing pages a query for q has to read: the keys under the vehicle's
\* prefix, maxKeys to a page
Pages(q) ==
    LET n == Cardinality({k \in DOMAIN bucket.history : k.vehicle = q.vehicleId})
    IN  IF n = 0 THEN 1 ELSE (n + q.maxKeys - 1) \div q.maxKeys

\* C12: the history query never returns a partial listing: when the request
\* for any page of the listing fails the response is an error with no data,
\* and a successful response has considered the keys of every page, so a
\* matching record is left out only when cap-many newer ones are returned.
C12_NoPartialListing ==
    last.event = "history" =>
        LET q == last.data
        IN  /\ (q.fault.op = "list" /\ q.fault.at <= Pages(q)) =>
                   ~last.res.ok /\ "data" \notin DOMAIN last.res
            /\ last.res.ok =>
                   \A m \in Matching(q) :
                       \/ m \in Returned
                       \/ Len(last.res.data) = q.cap /\ \A r \in Returned : m < r

\* the request for the second page failed after the first page was read
C12_Witness ==
    /\ last.event = "history"
    /\ last.data.fault = [op |-> "list", at |-> 2]
    /\ Pages(last.data) >= 2
    /\ Matching(last.data) # {}
    /\ ~last.res.ok

\* the open connections of user u
OpenOf(u) ==
    {s \in 1..Len(sockets) :
        /\ sockets[s].status = "open"
        /\ Field(sockets[s].data, "role") = "user"
        /\ Field(sockets[s].data, "userId") = u}

\* the run of the scenario: U1 has requested V2, the operation before the
\* last granted U1 for V2, and the last is a location:update for V2 from a
\* connection of device V2
ScenarioRun ==
    /\ last.event = "location:update" /\ last.ack.ok
    /\ Field(sockets[last.socket].data, "vehicleId") = "V2"
    /\ last.data.vehicleId = "V2"
    /\ prev = Call("accepted", "V2", "U1")
    /\ Call("pending", "V2", "U1") \in called

\* the step is a socket event being handled: it takes one of the step budget
\* and the clock stands still
Handling == steps' = steps + 1 /\ now' = now

\* C13: after U1's location:request for V2, device V2's permission:granted
\* for U1 and one location:update of device V2, each open connection of U1
\* has received exactly one location:live event, carrying the reported
\* vehicleId, lat, lng and speed and as ts the server's clock at the update.
C13_ScenarioLive ==
    [][ (Handling /\ ScenarioRun') =>
            \A s \in OpenOf("U1")' :
                /\ Len(Received(s)') = 1
                /\ Received(s)'[1].event = "location:live"
                /\ Received(s)'[1].payload =
                       [vehicleId |-> "V2", lat |-> last'.data.lat, lng |-> last'.data.lng,
                        speed |-> last'.data.speed, ts |-> now] ]_vars

\* the scenario with two dashboards of U1 open, after the clock has moved
C13_Witness ==
    /\ ScenarioRun
    /\ Cardinality(OpenOf("U1")) = 2
    /\ now > 1
    /\ \A s \in OpenOf("U1") : Len(Received(s)) = 1

\* the role a socket was bound to at its handshake
BoundRole(s) == Field(sockets[s].data, "role")
WrongRole(event, role) ==
    \/ event \in {"location:update", "permission:granted"} /\ role = "user"
    \/ event = "location:request" /\ role = "device"

\* C14: an event from a connection of the wrong role (location:update or
\* permission:granted from a user, location:request from a device) is acked
\* ok:false with an error, writes nothing to the store and emits no push, and
\* the connection stays open and registered.
C14_WrongRoleRefused ==
    [][ (Handling /\ last'.event \in SocketEvents
                  /\ WrongRole(last'.event, BoundRole(last'.socket))) =>
            /\ ~last'.ack.ok /\ Truthy(last'.ack.error)
            /\ bucket' = bucket
            /\ last'.emits = <<>>
            /\ sockets' = sockets
            /\ userSockets' = userSockets /\ vehicleSockets' = vehicleSockets
            /\ sockets[last'.socket].status = "open" /\ Registered(last'.socket) ]_vars

\* a device's location:request was refused over a store that holds documents
C14_Witness ==
    /\ last.event = "location:request"
    /\ BoundRole(last.socket) = "device"
    /\ ~last.ack.ok
    /\ sockets[last.socket].status = "open" /\ Registered(last.socket)
    /\ bucket.current # EmptyMap

\* the fields each event's payload has to carry
Required(event) ==
    IF event = "location:update" THEN {"vehicleId", "lat", "lng"}
    ELSE IF event = "location:request" THEN {"vehicleId"}
    ELSE {"userId", "vehicleId"}
Lacking(event, data) == \E f \in Required(event) : Field(data, f) = Undefined
Writes(log) == {i \in 1..Len(log) : log[i].kind = "put"}

\* C15: an event of the right role whose payload lacks a required field is
\* acked ok:false with an error, and no document is written and no push is
\* emitted for it.
C15_MissingFieldRefused ==
    ( /\ last.event \in SocketEvents
      /\ ~WrongRole(last.event, BoundRole(last.socket))
      /\ Lacking(last.event, last.data) )
    => /\ ~last.ack.ok /\ Truthy(last.ack.error)
       /\ Writes(last.log) = {}
       /\ last.emits = <<>>

\* the object a put addresses, as store b holds it
Stored(b, p) ==
    IF p.key \in DOMAIN b[p.family]
    THEN [present |-> TRUE, value |-> b[p.family][p.key]]
    ELSE [present |-> FALSE]
Families == {"vehPerm", "userPerm", "current", "history"}
FailedWrites(log) == {i \in Writes(log) : ~log[i].ok}
\* what a write of the event leaves in the object it addresses
Landed(event, data, sender, clock, doc) ==
    IF event = "location:update"
    THEN doc.ts = clock /\ doc.lat = data.lat /\ doc.lng = data.lng
    ELSE IF event = "location:request"
    THEN Field(sender, "userId") \in {doc.pending[i] : i \in 1..Len(doc.pending)}
    ELSE data.userId \in {doc.accepted[i] : i \in 1..Len(doc.accepted)}

\* C16: when a store write fails while location:update, location:request or
\* permission:granted is handled, the sender is acked ok:false with the
\* error, the failed write is the handler's last and its object stays as it
\* was, the writes made before it are in the store, and no push is emitted.
C16_WriteFailure ==
    [][ (Handling /\ last'.event \in SocketEvents /\ FailedWrites(last'.log) # {}) =>
            LET log == last'.log
                failed == CHOOSE i \in FailedWrites(log) : TRUE
            IN  /\ ~last'.ack.ok /\ Truthy(last'.ack.error)
                /\ last'.emits = <<>>
                /\ \A i \in 1..Len(log) : log[i].kind # "emit"
                /\ FailedWrites(log) = {failed}
                /\ \A i \in Writes(log) : i <= failed
                /\ Stored(bucket', log[failed]) = Stored(bucket, log[failed])
                /\ \A i \in Writes(log) \ {failed} :
                       /\ Stored(bucket', log[i]).present
                       /\ Landed(last'.event, last'.data, sockets[last'.socket].data, now,
                                 Stored(bucket', log[i]).value)
                /\ \A f \in Families : \A k \in DOMAIN bucket[f] :
                       (\A i \in Writes(log) : log[i].family # f \/ log[i].key # k)
                           => k \in DOMAIN bucket'[f] /\ bucket'[f][k] = bucket[f][k] ]_vars

\* a grant whose second write failed: the vehicle document has the user
\* accepted, the user document was not written
C16_Witness ==
    /\ last.event = "permission:granted"
    /\ ~last.ack.ok
    /\ Len(last.log) = 3 /\ last.log[1].ok /\ ~last.log[2].ok
    /\ Has(vehDoc("V1").accepted, "U1")
    /\ ~Has(usrDoc("U1").accepted, "V1")

\* the report the server makes of a client payload at the given clock, as JSON
Stamped(data, clock) ==
    [k \in {f \in {"vehicleId", "lat", "lng", "speed"} : Field(data, f) # Undefined} \cup {"ts"} |->
        IF k = "ts" THEN clock ELSE data[k]]

\* C17: the ts of the current document, of the history record and of every
\* location:live event of a location:update is the server's clock at the
\* handling, and each of the three holds vehicleId, lat, lng, speed and ts
\* alone: a ts or any other field of the client's payload is in none of them.
C17_ServerStamped ==
    [][ (Handling /\ last'.event = "location:update" /\ last'.ack.ok) =>
            LET data == last'.data
                v == data.vehicleId
            IN  /\ bucket'.current[v] = Stamped(data, now)
                /\ bucket'.history[[vehicle |-> v, ts |-> now]] = Stamped(data, now)
                /\ \A i \in 1..Len(last'.emits) :
                       /\ last'.emits[i].event = "location:live"
                       /\ DOMAIN last'.emits[i].payload
                              = {"vehicleId", "lat", "lng", "speed", "ts"}
                       /\ last'.emits[i].payload.ts = now
                       /\ \A f \in DOMAIN Stamped(data, now) :
                              last'.emits[i].payload[f] = Stamped(data, now)[f] ]_vars

\* a report that came with a ts and a heading of the client's own was stored
\* and pushed to an accepted user
C17_Witness ==
    /\ last.event = "location:update" /\ last.ack.ok
    /\ "heading" \in DOMAIN last.data
    /\ last.data.ts # now
    /\ Len(last.emits) = 1
    /\ bucket.current["V1"].ts = now

\* C18: history is append-only: no step changes or removes a history object
\* that exists, and every successful location:update adds a history object
\* under a key that did not exist, also when two updates for one vehicle are
\* stamped with the same millisecond.
C18_AppendOnly ==
    [][ /\ \A k \in DOMAIN bucket.history :
               k \in DOMAIN bucket'.history /\ bucket'.history[k] = bucket.history[k]
        /\ (Handling /\ last'.event = "location:update" /\ last'.ack.ok) =>
               DOMAIN bucket'.history # DOMAIN bucket.history ]_vars

\* C19: the permissions query for a user or a vehicle identity, also one with
\* no permission document or whose read fails, returns an object with a
\* pending array and an accepted array.
C19_BothArrays ==
    last.event = "permissions" => {"pending", "accepted"} \subseteq DOMAIN last.res

\* the open connections of device v
DevicesOf(v) ==
    {s \in 1..Len(sockets) :
        /\ sockets[s].status = "open"
        /\ Field(sockets[s].data, "role") = "device"
        /\ Field(sockets[s].data, "vehicleId") = v}
Emits(log) == {i \in 1..Len(log) : log[i].kind = "emit"}
Acks(log) == {i \in 1..Len(log) : log[i].kind = "ack"}

\* C20: after a location:request for vehicle V by a connection bound to user
\* U is acked ok:true, each open connection of device V has received exactly
\* one user:locationPermission push, with userId U and vehicleId V; and a
\* location:request emits only after it has written the vehicle's and the
\* user's permission document, and acks after it has emitted.
C20_RequestNotifiesDevice ==
    last.event = "location:request" =>
        LET log == last.log
            V == last.data.vehicleId
            U == Field(sockets[last.socket].data, "userId")
        IN  /\ last.ack.ok =>
                   /\ Emits(log) # {}
                   /\ \A s \in DevicesOf(V) :
                          /\ Len(Received(s)) = 1
                          /\ Received(s)[1].event = "user:locationPermission"
                          /\ Received(s)[1].payload.userId = U
                          /\ Received(s)[1].payload.vehicleId = V
            /\ \A e \in Emits(log) :
                   /\ \E i, j \in Writes(log) :
                          /\ i < e /\ j < e
                          /\ log[i].ok /\ log[i].family = "vehPerm" /\ log[i].key = V
                          /\ log[j].ok /\ log[j].family = "userPerm" /\ log[j].key = U
                   /\ \A w \in Writes(log) : w < e
                   /\ \A a \in Acks(log) : e < a
                   /\ Has(vehDoc(V).pending, U) /\ Has(usrDoc(U).pending, V)
            /\ Len(last.emits) = Cardinality(Emits(log))

\* U1's request for V1 reached the two open connections of device V1
C20_Witness ==
    /\ last.event = "location:request" /\ last.ack.ok
    /\ Cardinality(DevicesOf("V1")) = 2
    /\ \A s \in DevicesOf("V1") : Len(Received(s)) = 1
    /\ last.data.vehicleId = "V1"

\* every handler has returned
Quiescent == Running = {}
\* some handler was called while another had not returned
Overlapped == \E h \in 1..Len(inflight) : inflight[h].overlap

\* the pair is pending, or accepted, in one of its two documents only
OneSided(p) ==
    \/ Has(vehDoc(p[1]).pending, p[2]) # Has(usrDoc(p[2]).pending, p[1])
    \/ Has(vehDoc(p[1]).accepted, p[2]) # Has(usrDoc(p[2]).accepted, p[1])

\* C21: handlers of request and grant that interleave can lose an update:
\* a state in which every handler has returned (ack ok:true, no store
\* failure) and a pair is in one of its two documents and not in the other
\* is reached, and it is reached only by handlers that ran interleaved.
C21_LostUpdate ==
    (Quiescent /\ \E p \in Pairs : OneSided(p)) => Overlapped

\* request(V1, U1) and request(V1, U2) have both returned; U1's document
\* holds V1 as pending, V1's document does not hold U1
C21_Witness ==
    /\ Quiescent
    /\ Len(inflight) = 2
    /\ {<<inflight[h].op, inflight[h].vehicleId, inflight[h].userId>> : h \in 1..2}
           = {<<"pending", "V1", "U1">>, <<"pending", "V1", "U2">>}
    /\ Has(usrDoc("U1").pending, "V1")
    /\ ~Has(vehDoc("V1").pending, "U1")

\* C22: no operation revokes access: under every interleaving of request and
\* grant handlers with no store failure, a user that is in the accepted list
\* of a vehicle's stored document is in it in every later state.
C22_NeverRevoked ==
    [][ \A p \in Pairs :
            Has(vehDoc(p[1]).accepted, p[2]) => Has(vehDoc(p[1]).accepted, p[2])' ]_vars

\* the permission documents as store b holds them
vehDocIn(b, v) == IF v \in DOMAIN b.vehPerm THEN b.vehPerm[v] ELSE EmptyPerm
usrDocIn(b, u) == IF u \in DOMAIN b.userPerm THEN b.userPerm[u] ELSE EmptyPerm

\* the handler wrote the vehicle document and its write of the user document
\* failed
HalfWritten(log) ==
    \E i, j \in Writes(log) :
        /\ i < j
        /\ log[i].family = "vehPerm" /\ log[i].ok
        /\ log[j].family = "userPerm" /\ ~log[j].ok

\* C23: when, in a request or a grant for the pair (V, U), the write of the
\* vehicle document succeeds and the write of the user document fails, the
\* store holds the pair's new membership in V's document, U's document is as
\* it was, so without that membership unless it held it before, and the
\* operation does nothing more than ack the failure.
C23_HalfWritten ==
    [][ ( /\ Handling
          /\ last'.event \in {"location:request", "permission:granted"}
          /\ HalfWritten(last'.log) ) =>
            LET V == last'.data.vehicleId
                U == IF last'.event = "location:request"
                     THEN sockets[last'.socket].data.userId
                     ELSE last'.data.userId
                list == IF last'.event = "location:request" THEN "pending" ELSE "accepted"
                log == last'.log
            IN  /\ Has(vehDocIn(bucket', V)[list], U)
                /\ bucket'.userPerm = bucket.userPerm
                /\ ~Has(usrDocIn(bucket, U)[list], V) => ~Has(usrDocIn(bucket', U)[list], V)
                /\ log[Len(log)].kind = "ack" /\ ~log[Len(log)].ok
                /\ \A i \in 1..(Len(log) - 1) : log[i].kind = "put" ]_vars

\* a request whose second write failed: V1's document holds U1 as pending,
\* U1 has no document
C23_Witness ==
    /\ last.event = "location:request"
    /\ HalfWritten(last.log)
    /\ Has(vehDoc("V1").pending, "U1")
    /\ "U1" \notin DOMAIN bucket.userPerm

\* the objects without the one at key
Absent(objects, key) == [k \in DOMAIN objects \ {key} |-> objects[k]]
\* the store in which the documents that the reads of a handler for vehicle v
\* and user u ask for do not exist
Forget(b, v, u, reads) ==
    [b EXCEPT !.vehPerm = IF "vehPerm" \in reads THEN Absent(@, pathId(v)) ELSE @,
              !.userPerm = IF "userPerm" \in reads THEN Absent(@, pathId(u)) ELSE @]
\* the permission documents other than those of vehicle v and user u
OtherPerms(b, v, u) ==
    [vehPerm |-> Absent(b.vehPerm, pathId(v)), userPerm |-> Absent(b.userPerm, pathId(u))]

\* C24: a location:request, permission:granted or location:update in which a
\* read of a document fails writes, pushes and acks what it does when that
\* document does not exist: request and grant write back the documents that
\* updatePermission computes from the store without the unread documents
\* (a vehicle document that was not read then holds only the pair being
\* processed), push their one event and ack ok:true; location:update writes
\* its report, pushes as for a vehicle without a permission document, that
\* is to nobody, and acks ok:true.
C24_FailedReadAsMissing ==
    [][ (Handling /\ last'.reads # {}) =>
          LET event == last'.event
              reads == last'.reads
              V == last'.data.vehicleId
              U == IF event = "location:request"
                   THEN sockets[last'.socket].data.userId ELSE last'.data.userId
              status == IF event = "location:request" THEN "pending" ELSE "accepted"
              missing == updatePermission(Forget(bucket, V, U, reads), V, U, status)
              payload == report(last'.data, now)
          IN  /\ last'.ack = Ok
              /\ event \in {"location:request", "permission:granted"} =>
                   /\ vehDocIn(bucket', V) = vehDocIn(missing, V)
                   /\ usrDocIn(bucket', U) = usrDocIn(missing, U)
                   /\ OtherPerms(bucket', V, U) = OtherPerms(bucket, V, U)
                   /\ "vehPerm" \in reads =>
                        vehDocIn(bucket', V) = [EmptyPerm EXCEPT ![status] = << U >>]
                   /\ "userPerm" \in reads =>
                        usrDocIn(bucket', U) = [EmptyPerm EXCEPT ![status] = << V >>]
                   /\ bucket'.current = bucket.current /\ bucket'.history = bucket.history
                   /\ last'.emits =
                        IF event = "location:request"
                        THEN << Emit("vehicle", V, "user:locationPermission",
                                     [userId |-> U, vehicleId |-> V, ts |-> now]) >>
                        ELSE << Emit("user", U, "permission:granted",
                                     [vehicleId |-> V, userId |-> U]) >>
              /\ event = "location:update" =>
                   /\ bucket'.current = putJSON(bucket.current, pathId(V), payload)
                   /\ bucket'.history = putJSON(bucket.history, historyKey(V, now), payload)
                   /\ bucket'.vehPerm = bucket.vehPerm /\ bucket'.userPerm = bucket.userPerm
                   /\ last'.emits = FanOut(Forget(bucket', V, V, reads), payload)
                   /\ "vehPerm" \in reads => last'.emits = <<>>
       ]_vars

\* U2's request for V1 with the read of V1's document failing, after U1's
\* request: V1's document holds U2 alone while U1's still lists V1
C24_Witness ==
    /\ last.event = "location:request"
    /\ last.reads = {"vehPerm"}
    /\ last.ack = Ok
    /\ vehDoc("V1").pending = << "U2" >>
    /\ Has(usrDoc("U1").pending, "V1")

\* the registry set of identity k: m.get(k), nothing when the key is not set
SetOf(m, k) == IF k \in DOMAIN m THEN m[k] ELSE {}
\* the open connections bound to the identity k of a role
OpenBound(role, field, k) ==
    {s \in 1..Len(sockets) :
        /\ sockets[s].status = "open"
        /\ Field(sockets[s].data, "role") = role
        /\ Field(sockets[s].data, field) = k}
\* the identities of a role: the registry's keys and what connections are bound to
Identities(m, field) ==
    DOMAIN m \cup {Field(sockets[s].data, field) : s \in 1..Len(sockets)}

\* C25: for every identity, the registry set of that identity (userSockets for
\* users, vehicleSockets for devices) holds exactly the ids of the open
\* connections bound to it.
C25_RegistryExact ==
    /\ \A k \in Identities(userSockets, "userId") :
           SetOf(userSockets, k) = OpenBound("user", "userId", k)
    /\ \A k \in Identities(vehicleSockets, "vehicleId") :
           SetOf(vehicleSockets, k) = OpenBound("device", "vehicleId", k)

\* two open connections of U1 in U1's set, and a third that was disconnected
\* and is in no set
C25_Witness ==
    /\ Len(sockets) = 3
    /\ \A s \in 1..3 : sockets[s].data = [role |-> "user", userId |-> "U1"]
    /\ Cardinality(OpenBound("user", "userId", "U1")) = 2
    /\ SetOf(userSockets, "U1") = OpenBound("user", "userId", "U1")
    /\ last.event = "disconnect"

\* the vehicleId bound to the connection that sent the event being handled
SenderVehicle == Field(sockets[last'.socket].data, "vehicleId")
\* a step that writes the current or a history document of vehicle v, or
\* pushes a location:live event carrying vehicleId v
ReportsFor(v) ==
    \/ getJSON(bucket'.current, pathId(v), EmptyObject)
         # getJSON(bucket.current, pathId(v), EmptyObject)
    \/ \E k \in DOMAIN bucket'.history :
          /\ k.vehicle = pathId(v)
          /\ getJSON(bucket'.history, k, EmptyObject) # getJSON(bucket.history, k, EmptyObject)
    \/ /\ last' # last
       /\ \E i \in 1..Len(last'.emits) :
             /\ last'.emits[i].event = "location:live"
             /\ last'.emits[i].payload.vehicleId = v

\* C26: every write of the current or history documents of a vehicle V, and
\* every location:live event carrying vehicleId V, is made by the handling of
\* a location:update sent on a connection whose bound vehicleId is V.
C26_OwnVehicleOnly ==
    [][ \A v \in VehicleIds :
          ReportsFor(v) =>
             /\ Handling
             /\ last'.event = "location:update"
             /\ SenderVehicle = v ]_vars

\* C27: a user U enters the accepted list of vehicle V's document, or V the
\* accepted list of U's document, only by the handling of a permission:granted
\* sent on a connection whose bound vehicleId is V.
C27_ConsentFromVehicle ==
    [][ \A p \in Pairs :
          ( \/ ~Has(vehDoc(p[1]).accepted, p[2]) /\ Has(vehDoc(p[1]).accepted, p[2])'
            \/ ~Has(usrDoc(p[2]).accepted, p[1]) /\ Has(usrDoc(p[2]).accepted, p[1])' ) =>
             /\ Handling
             /\ last'.event = "permission:granted"
             /\ SenderVehicle = p[1] ]_vars

\* the userId bound to the connection that sent the event being handled
SenderUser == Field(sockets[last'.socket].data, "userId")

\* C28: the handling of a location:request puts into pending lists only the
\* pair of the payload's vehicleId and the userId bound to the sending
\* connection, whatever userId the payload carries: an acked request has
\* recorded that pair, no other user's document changes, and no other user
\* enters a pending list of any vehicle.
C28_RequestsForItself ==
    [][ (Handling /\ last'.event = "location:request") =>
          /\ last'.ack.ok =>
               /\ last'.call = Call("pending", last'.data.vehicleId, SenderUser)
               /\ \/ Has(vehDocIn(bucket', last'.data.vehicleId).pending, SenderUser)
                  \/ Has(vehDocIn(bucket', last'.data.vehicleId).accepted, SenderUser)
          /\ \A u \in UserIds \ {SenderUser} :
               /\ usrDocIn(bucket', u) = usrDocIn(bucket, u)
               /\ \A v \in VehicleIds :
                    Has(vehDocIn(bucket', v).pending, u) => Has(vehDocIn(bucket, v).pending, u)
       ]_vars

\* U1's connection has sent a request for V1 whose payload names U2: U1 is
\* pending at V1, U2 is not and has no document
C28_Witness ==
    /\ last.event = "location:request" /\ last.ack.ok
    /\ last.data = [vehicleId |-> "V1", userId |-> "U2"]
    /\ Field(sockets[last.socket].data, "userId") = "U1"
    /\ vehDoc("V1").pending = << "U1" >>
    /\ usrDoc("U2") = EmptyPerm

\* the location:update handlers for vehicle v that have not returned
Reporting(v) == {h \in Running : inflight[h].op = "update" /\ inflight[h].vehicleId = v}
\* the history records of vehicle v
RecordsOf(v) == {k \in DOMAIN bucket.history : k.vehicle = pathId(v)}
\* the history record of vehicle v with the greatest ts
Latest(v) ==
    bucket.history[CHOOSE k \in RecordsOf(v) : \A x \in RecordsOf(v) : x.ts <= k.ts]

\* C29: whenever no location:update handler for vehicle V is in flight and V
\* has history, the current document of V equals the history record of V with
\* the greatest ts.
C29_CurrentIsLatest ==
    \A v \in VehicleIds :
        (Reporting(v) = {} /\ RecordsOf(v) # {}) =>
            /\ pathId(v) \in DOMAIN bucket.current
            /\ bucket.current[pathId(v)] = Latest(v)

====
